---- MODULE Spec2Model ----
(***************************************************************************)
(* Model of scripts/generate-docs.ts: the content materializer             *)
(* (copyRecursively), the position cache (sidebarPositions and its file),  *)
(* the navigation synthesizer (processDocsNavigation and friends) and the  *)
(* config writer (writeMintConfig), driven by generateDocs.                *)
(*                                                                         *)
(* A file name is a record [stem, ext] standing for "stem.ext" ("stem"     *)
(* when ext is empty); a path is a sequence of names.  A page string and a *)
(* navigation prefix are sequences of segments (the text between slashes). *)
(***************************************************************************)
EXTENDS Integers, Sequences, FiniteSets, TLC

VARIABLES
    src,              \* the source file system: path -> entity
    out,              \* docs-generated: output-relative path -> entity
    cacheFile,        \* .sidebar-positions.json: [exists, entries]
    sidebarPositions, \* the in-memory Map, in insertion order
    enumRev,          \* the order in which readdir enumerates entries
    pc,               \* position of generateDocs
    stack,            \* pending copyRecursively calls, innermost first
    clean,            \* the clean flag of the current run
    finalNav,         \* finalConfig.navigation of the current run
    runs,             \* number of runs started
    edits,            \* number of changes made between runs
    hist,             \* per-run observations (reads, writes, snapshots)
    navIn,            \* input of a stand-alone synthesizer call
    navOut            \* its result

vars == <<src, out, cacheFile, sidebarPositions, enumRev, pc,
          stack, clean, finalNav, runs, edits, hist, navIn, navOut>>

----------------------------------------------------------------------------
(* Bounds *)

MaxRuns == 2
MaxEdits == 1
MaxDepth == 4
MaxLines == 3
MaxToks == 4
\* the longest directory path, in segments, the file system accepts
MaxPath == 6

----------------------------------------------------------------------------
(* Names and paths *)

N(s, e) == [stem |-> s, ext |-> e]

\* Alphabetical (localeCompare) order of the stems and extensions in use.
StemOrder == <<"_draft", "alpha", "api", "API", "beta", "docs", "docs-base",
               "guide", "img", "index", "intro", "link2", "loop", "missing", "overview",
               "protocol", "README", "ref", "S", "snippets", "sub", "T", "zeta">>
ExtOrder == <<"", "json", "md", "mdx", "png">>

IndexOf(seq, x) == CHOOSE i \in 1..Len(seq) : seq[i] = x

\* a.name.localeCompare(b.name): negative, zero or positive
localeCompare(a, b) ==
    IF a.stem # b.stem
    THEN IndexOf(StemOrder, a.stem) - IndexOf(StemOrder, b.stem)
    ELSE IndexOf(ExtOrder, a.ext) - IndexOf(ExtOrder, b.ext)

\* lower-casing, as done by the /i flag of the readme/index pattern
ToLower(s) == CASE s = "README" -> "readme"
                [] s = "API" -> "api"
                [] s = "S" -> "s"
                [] s = "T" -> "t"
                [] OTHER -> s

\* file.name.startsWith("_")
StartsWithUnderscore(n) == n.stem \in {"_draft"}

\* name.endsWith(".md") || name.endsWith(".mdx")
IsMarkupName(n) == n.ext \in {"md", "mdx"}

\* dest.replace(/\.md$/, ".mdx") on the last component of a path
RenameMd(p) ==
    IF Len(p) > 0 /\ p[Len(p)].ext = "md"
    THEN [p EXCEPT ![Len(p)] = N(@.stem, "mdx")]
    ELSE p

\* file.name.replace(/\.(md|mdx)$/, "")
StripMarkupExt(n) == n.stem

\* a directory name used as a path segment of a page string
SegOf(n) == n.stem

\* path.join(GENERATED_DIR, "a/b"): segments to an output-relative path
PathOfSegs(segs) == [i \in 1..Len(segs) |-> N(segs[i], "")]

Last(p) == p[Len(p)]
Parent(p) == SubSeq(p, 1, Len(p) - 1)
IsPrefixOf(p, q) == Len(p) <= Len(q) /\ SubSeq(q, 1, Len(p)) = p

TEMPLATE_DIR == <<N("T", "")>>
SUBMODULES_DIR == <<N("S", "")>>
GENERATED_DIR == <<>>
DOCS_JSON == N("docs", "json")
DOCS_BASE_JSON == N("docs-base", "json")
BASE_CONFIG_PATH == TEMPLATE_DIR \o <<DOCS_BASE_JSON>>

----------------------------------------------------------------------------
(* File-system helpers *)

Exists(fs, p) == p \in DOMAIN fs
IsDir(fs, p) == Exists(fs, p) /\ fs[p].kind = "dir"
IsFile(fs, p) == Exists(fs, p) /\ fs[p].kind = "file"
IsLink(fs, p) == Exists(fs, p) /\ fs[p].kind = "link"

ChildPaths(fs, d) ==
    {p \in DOMAIN fs : Len(p) = Len(d) + 1 /\ SubSeq(p, 1, Len(d)) = d}

RECURSIVE SortedNames(_)
SortedNames(S) ==
    IF S = {} THEN <<>>
    ELSE LET m == CHOOSE x \in S : \A y \in S : localeCompare(x, y) <= 0
         IN <<m>> \o SortedNames(S \ {m})

Reverse(s) == [i \in 1..Len(s) |-> s[Len(s) + 1 - i]]

\* fs.readdirSync(d): the names in d, in the order the file system gives
readdir(fs, d) ==
    LET names == SortedNames({Last(p) : p \in ChildPaths(fs, d)})
    IN IF enumRev THEN Reverse(names) ELSE names

\* function update that may extend the domain
Put(f, k, v) == [x \in DOMAIN f \cup {k} |-> IF x = k THEN v ELSE f[x]]

\* fs.mkdirSync(dest, {recursive: true})
mkdirp(fs, d) ==
    [x \in DOMAIN fs \cup {SubSeq(d, 1, i) : i \in 0..Len(d)} |->
        IF x \in DOMAIN fs THEN fs[x] ELSE [kind |-> "dir"]]

----------------------------------------------------------------------------
(* Position cache *)

Infinity == 99
NoHint == -1

EmptyMap == <<>>

MapHas(m, k) == \E i \in 1..Len(m) : m[i].k = k

\* sidebarPositions.get(k) ?? Infinity
MapGet(m, k) ==
    IF MapHas(m, k) THEN m[CHOOSE i \in 1..Len(m) : m[i].k = k].v
    ELSE Infinity

\* sidebarPositions.set(k, v): a new key goes last, an old key keeps its place
MapSet(m, k, v) ==
    IF MapHas(m, k)
    THEN [i \in 1..Len(m) |-> IF m[i].k = k THEN [k |-> k, v |-> v] ELSE m[i]]
    ELSE Append(m, [k |-> k, v |-> v])

NoCacheFile == [exists |-> FALSE, entries |-> <<>>]

RECURSIVE LoadEntries(_, _)
LoadEntries(m, entries) ==
    IF entries = <<>> THEN m
    ELSE LoadEntries(MapSet(m, Head(entries).k, Head(entries).v), Tail(entries))

loadSidebarPositions_ignoreCache(cf) == EmptyMap

\* the Map after loadSidebarPositions() in a fresh process
loadSidebarPositions(cf) ==
    IF cf.exists THEN LoadEntries(EmptyMap, cf.entries) ELSE EmptyMap

\* the cache file after saveSidebarPositions(); wrote tells whether
\* writeFileSync was called
saveSidebarPositions(cf, m) ==
    LET existingContent == IF cf.exists THEN cf.entries ELSE <<>>
        \* JSON of an empty object is "{}", the initial existingContent is ""
        differs == IF cf.exists THEN m # existingContent ELSE TRUE
    IN [file |-> IF differs THEN [exists |-> TRUE, entries |-> m] ELSE cf,
        wrote |-> differs]

\* getSidebarPosition(filePath), filePath given relative to GENERATED_DIR
getSidebarPosition(p) == MapGet(sidebarPositions, p)

----------------------------------------------------------------------------
(* Content materializer *)

\* the relativePath.startsWith("snippets/") test of injectEditPageComponent
InSnippets(dest) == Len(dest) > 1 /\ dest[1] = N("snippets", "")

(* The text of a markup file:                                              *)
(*   fm    "ok" when gray-matter parses the frontmatter, "bad" when it     *)
(*         throws                                                          *)
(*   fmt   "written" for the author's own text, "stringified" for text     *)
(*         rebuilt by matter.stringify                                     *)
(*   data  the metadata keys other than sidebar_position, with their       *)
(*         values (strings, "" for an empty value)                         *)
(*   hint  the numeric sidebar_position, NoHint when there is none         *)
(*   body  the lines after the frontmatter                                 *)
(* A line has a kind k: "text", "blank" (empty), "h1" ("# s"), "h2"        *)
(* ("## s") or "link" (a line "[label](to)", to being the link path cut    *)
(* into the pieces the link patterns look at).                             *)

Line(k, sv, nv, tv) == [k |-> k, s |-> sv, n |-> nv, to |-> tv]
Txt(nv) == Line("text", "", nv, <<>>)
Blank == Line("blank", "", 0, <<>>)
H1(sv) == Line("h1", sv, 0, <<>>)
LinkLine(tv) == Line("link", "", 0, tv)

\* {...r, f: v}
With(r, f, v) == [x \in DOMAIN r \cup {f} |-> IF x = f THEN v ELSE r[x]]

\* the truthiness of parsed.data[key]
Truthy(data, key) == key \in DOMAIN data /\ data[key] # ""

\* the lines matched by /^\s*#\s+(.+)$/m: the first "# ..." line together
\* with the empty lines right before it, which \s* runs over
HeadingAt(body) ==
    IF \E i \in 1..Len(body) : body[i].k = "h1"
    THEN CHOOSE i \in 1..Len(body) :
            body[i].k = "h1" /\ \A j \in 1..(i - 1) : body[j].k # "h1"
    ELSE 0

RECURSIVE BlanksBefore(_, _)
BlanksBefore(body, i) ==
    IF i > 1 /\ body[i - 1].k = "blank" THEN 1 + BlanksBefore(body, i - 1) ELSE 0

RECURSIVE BlanksAfter(_, _)
BlanksAfter(body, i) ==
    IF i < Len(body) /\ body[i + 1].k = "blank"
    THEN 1 + BlanksAfter(body, i + 1) ELSE 0

\* extractFirstHeading(content): "" stands for null
extractFirstHeading(body) ==
    IF HeadingAt(body) = 0 THEN "" ELSE body[HeadingAt(body)].s

\* parsed.content.replace(/^\s*#\s+.+$\n*/m, "")
RemoveHeading(body) ==
    LET h == HeadingAt(body)
    IN IF h = 0 THEN body
       ELSE SubSeq(body, 1, h - 1 - BlanksBefore(body, h))
            \o SubSeq(body, h + 1 + BlanksAfter(body, h), Len(body))

\* the text returned by processMarkdownFrontmatter(content, filePath)
processMarkdownFrontmatter(content) ==
    IF content.fm = "bad" THEN content  \* matter() throws, the catch returns
    ELSE
    LET rename == Truthy(content.data, "sidebar_label")
                  /\ ~ Truthy(content.data, "sidebarTitle")
        renamed == IF rename
                   THEN [k \in (DOMAIN content.data \cup {"sidebarTitle"})
                                  \ {"sidebar_label"} |->
                            IF k = "sidebarTitle" THEN content.data["sidebar_label"]
                            ELSE content.data[k]]
                   ELSE content.data
        firstHeading == extractFirstHeading(content.body)
        extract == ~ Truthy(content.data, "title") /\ firstHeading # ""
    IN IF ~ rename /\ ~ extract THEN content
       ELSE [content EXCEPT
               !.fmt = "stringified",
               !.data = IF extract THEN With(renamed, "title", firstHeading)
                        ELSE renamed,
               !.body = IF extract THEN RemoveHeading(@) ELSE @]

\* the Map after processMarkdownFrontmatter(content, destFile)
RecordHint(m, content, destFile) ==
    IF content.fm = "ok" /\ content.hint # NoHint
    THEN MapSet(m, destFile, content.hint) ELSE m

\* linkPath.replace(/\.mdx?(#|$)/, "$1")
StripExtension(linkPath) ==
    LET at == {i \in 1..Len(linkPath) :
                  /\ linkPath[i] \in {".md", ".mdx"}
                  /\ (i = Len(linkPath) \/ linkPath[i + 1] = "#")}
        i == CHOOSE x \in at : \A y \in at : x <= y
    IN IF at = {} THEN linkPath
       ELSE SubSeq(linkPath, 1, i - 1) \o SubSeq(linkPath, i + 1, Len(linkPath))

\* the replacement made by convertLocalMarkdownLinks for one link path
convertLinkPath(linkPath) ==
    LET has(toks) == \E i \in 1..Len(linkPath) : linkPath[i] \in toks
        convertedPath == IF has({".md", ".mdx"}) THEN StripExtension(linkPath)
                         ELSE linkPath
    IN IF linkPath[1] \in {"http://", "https://"} THEN linkPath
       ELSE IF has({"http://", "https://", "://", "?", "="}) THEN linkPath
       ELSE IF convertedPath # <<>> /\ convertedPath[1] \in {"./", "/", "../"}
       THEN convertedPath
       ELSE <<"./">> \o convertedPath

convertLocalMarkdownLinks(content) ==
    [content EXCEPT !.body =
        [i \in 1..Len(@) |->
            IF @[i].k = "link" THEN LinkLine(convertLinkPath(@[i].to)) ELSE @[i]]]

\* the date of the last commit of the file as git log gives it, "" (null)
\* when it gives none or fails; what git answers is the field git of the
\* source entity
getGitLastModified(filePath) ==
    IF "git" \in DOMAIN src[filePath] THEN src[filePath].git ELSE ""

\* content + editComponent: edit is the file the editUrl is built from,
\* <<>> when no component is appended
injectEditPageComponent(content, destFile, srcFile) ==
    IF InSnippets(destFile)
    THEN With(With(content, "edit", <<>>), "lastModified", "")
    ELSE With(With(content, "edit", srcFile),
              "lastModified", getGitLastModified(srcFile))

\* the text written for a markup file: frontmatter processed, links
\* converted, edit component appended
TransformedContent(content, destFile, srcFile) ==
    With(injectEditPageComponent(
             convertLocalMarkdownLinks(processMarkdownFrontmatter(content)),
             destFile, srcFile),
         "t", "page")

Task(s, d) == [src |-> s, dest |-> d]

\* the calls made by the for loop over readdirSync(src) of a directory
ChildTasks(s, d) ==
    LET names == readdir(src, s)
    IN [i \in 1..Len(names) |-> Task(s \o <<names[i]>>, d \o <<names[i]>>)]

\* the calls made by copyAllTemplateFiles
TemplateTasks ==
    LET names == SelectSeq(readdir(src, TEMPLATE_DIR),
                           LAMBDA n : n # DOCS_BASE_JSON)
    IN [i \in 1..Len(names) |-> Task(TEMPLATE_DIR \o <<names[i]>>, <<names[i]>>)]

\* a link handler that files the content under the target's own name
LinkTask_targetName(t) ==
    Task(src[t.src].target, Parent(t.dest) \o <<Last(src[t.src].target)>>)

\* the call made for a symbolic link: the resolved target, the same dest
LinkTask(t) == Task(src[t.src].target, t.dest)

\* a skip decision that copies only when the source is newer
shouldCopy_newerOnly(s, destFile) ==
    ~ Exists(out, destFile) \/ src[s].mtime > out[destFile].mtime

\* copyRecursively on a regular file: the skip decision
shouldCopy(s, destFile) ==
    ~ (Exists(out, destFile) /\ src[s].mtime = out[destFile].mtime)

DestFileOf(s, d) == IF Last(s).ext = "md" THEN RenameMd(d) ELSE d

needsLinkProcessing(s) == Last(s).ext \in {"md", "mdx"}

\* One call of copyRecursively(src, dest): the top of the stack.
CopyStep ==
    /\ pc = "copy"
    /\ stack # <<>>
    /\ LET t == Head(stack)
           rest == Tail(stack)
       IN IF ~ Exists(src, t.src)
          THEN \* lstatSync throws
               /\ pc' = "failed"
               /\ stack' = <<>>
               /\ UNCHANGED <<out, sidebarPositions, hist>>
          ELSE IF src[t.src].kind = "link"
          THEN /\ stack' = <<LinkTask(t)>> \o rest
               /\ UNCHANGED <<out, sidebarPositions, hist, pc>>
          ELSE IF src[t.src].kind = "dir" /\ Len(t.dest) > MaxPath
          THEN \* mkdirSync throws: the path is longer than the system allows
               /\ pc' = "failed"
               /\ stack' = <<>>
               /\ UNCHANGED <<out, sidebarPositions, hist>>
          ELSE IF src[t.src].kind = "dir"
          THEN /\ out' = mkdirp(out, t.dest)
               /\ stack' = ChildTasks(t.src, t.dest) \o rest
               /\ UNCHANGED <<sidebarPositions, hist, pc>>
          ELSE LET destFile == DestFileOf(t.src, t.dest)
                   content == src[t.src].content
               IN /\ stack' = rest
                  /\ pc' = pc
                  /\ IF ~ shouldCopy(t.src, destFile)
                     THEN UNCHANGED <<out, sidebarPositions, hist>>
                     ELSE /\ hist' = [hist EXCEPT
                                        !.reads = @ \cup {t.src},
                                        !.wrote = @ \cup {destFile},
                                        !.copied = @ \cup {Task(t.src, destFile)}]
                          /\ IF needsLinkProcessing(t.src)
                             THEN /\ sidebarPositions' =
                                        RecordHint(sidebarPositions, content, destFile)
                                  /\ out' = Put(out, destFile,
                                        [kind |-> "file",
                                         mtime |-> src[t.src].mtime,
                                         content |-> TransformedContent(
                                                        content, destFile, t.src)])
                             ELSE /\ out' = Put(out, destFile,
                                        [kind |-> "file",
                                         mtime |-> src[t.src].mtime,
                                         content |-> content])
                                  /\ UNCHANGED sidebarPositions
    /\ UNCHANGED <<src, cacheFile, enumRev, clean, finalNav, runs, edits,
                   navIn, navOut>>

\* a run start whose clean flag leaves the output directory in place
StartRun_keepOutput(c) ==
    /\ pc \in {"idle", "done", "failed"}
    /\ runs < MaxRuns
    /\ LET cf == IF c THEN NoCacheFile ELSE cacheFile
           o == out
       IN /\ cacheFile' = cf
          /\ out' = mkdirp(o, GENERATED_DIR)
          /\ sidebarPositions' = loadSidebarPositions(cf)
    /\ stack' = TemplateTasks
    /\ pc' = "copy"
    /\ clean' = c
    /\ runs' = runs + 1
    /\ finalNav' = <<>>
    /\ hist' = [reads |-> {}, wrote |-> {}, copied |-> {},
                snapOut |-> out, snapCache |-> cacheFile,
                prevDone |-> pc = "done" \/ hist.completed,
                prevClean |-> clean, completed |-> FALSE,
                edited |-> hist.pending, pending |-> {}]
    /\ UNCHANGED <<src, enumRev, edits, navIn, navOut>>

\* generateDocs up to the first copyRecursively call: cleanGeneratedDir,
\* loadSidebarPositions, and the prologue of copyAllTemplateFiles.
StartRun(c) ==
    /\ pc \in {"idle", "done", "failed"}
    /\ runs < MaxRuns
    /\ LET cf == IF c THEN NoCacheFile ELSE cacheFile
           o == IF c THEN <<>> ELSE out
       IN /\ cacheFile' = cf
          /\ out' = mkdirp(o, GENERATED_DIR)
          /\ sidebarPositions' = loadSidebarPositions(cf)
    /\ stack' = TemplateTasks
    /\ pc' = "copy"
    /\ clean' = c
    /\ runs' = runs + 1
    /\ finalNav' = <<>>
    /\ hist' = [reads |-> {}, wrote |-> {}, copied |-> {},
                snapOut |-> out, snapCache |-> cacheFile,
                prevDone |-> pc = "done" \/ hist.completed,
                prevClean |-> clean, completed |-> FALSE,
                edited |-> hist.pending, pending |-> {}]
    /\ UNCHANGED <<src, enumRev, edits, navIn, navOut>>

----------------------------------------------------------------------------
(* Navigation documents                                                    *)
(*   Navigation: a record with a field tabs, groups or pages               *)
(*   group:      [group, pages?, autogenerate?, icon?, tag?]               *)
(*   tab:        [tab, groups?, pages?, autogenerate?, icon?, tag?]        *)
(*   item:       [page |-> segments] (a string in the code) or a group     *)
(* A call that throws yields Err, or RangeError when the call stack is     *)
(* exhausted; a call that returns v yields Ok(v).                          *)

Has(r, f) == f \in DOMAIN r
IsPage(item) == Has(item, "page")
Page(segs) == [page |-> segs]


\* the truthiness test on item.autogenerate
HasAuto(item) == Has(item, "autogenerate") /\ item.autogenerate # <<>>

Ok(v) == [ok |-> TRUE, v |-> v]
Err == [ok |-> FALSE, v |-> <<>>, why |-> "throw"]
\* "Maximum call stack size exceeded"
RangeError == [ok |-> FALSE, v |-> <<>>, why |-> "stack"]

\* the result of array.map(f) given the results of the calls of f
Collect(rs) ==
    IF \A i \in 1..Len(rs) : rs[i].ok
    THEN Ok([i \in 1..Len(rs) |-> rs[i].v])
    ELSE rs[CHOOSE i \in 1..Len(rs) :
                ~ rs[i].ok /\ \A j \in 1..(i - 1) : rs[j].ok]

\* {...node, f: c} where the evaluation of c may have thrown
Setting(node, f, c) == IF c.ok THEN Ok(With(node, f, c.v)) ELSE c

\* /^(readme|index)\.(md|mdx)$/i.test(name)
isReadmeOrIndex(n) ==
    ToLower(n.stem) \in {"readme", "index"} /\ n.ext \in {"md", "mdx"}

\* a comparator that forgets the readme/index rule and the positions
fileCompare_alphaOnly(folderPath, a, b) == localeCompare(a, b)

\* the comparator given to sort() in generatePagesFromFolder
fileCompare(folderPath, a, b) ==
    LET aPriority == isReadmeOrIndex(a)
        bPriority == isReadmeOrIndex(b)
        positionA == getSidebarPosition(folderPath \o <<a>>)
        positionB == getSidebarPosition(folderPath \o <<b>>)
    IN IF aPriority # bPriority THEN (IF aPriority THEN -1 ELSE 1)
       ELSE IF aPriority THEN localeCompare(a, b)
       ELSE IF positionA # positionB THEN positionA - positionB
       ELSE localeCompare(a, b)

\* a comparator that leaves the directories as enumerated
dirCompare_asEnumerated(folderPath, a, b) == 0

dirCompare(folderPath, a, b) == localeCompare(a, b)

\* Array.prototype.sort (stable) with the file comparator
RECURSIVE InsertFile(_, _, _)
InsertFile(folderPath, sorted, x) ==
    IF sorted = <<>> THEN <<x>>
    ELSE IF fileCompare(folderPath, x, Head(sorted)) < 0 THEN <<x>> \o sorted
    ELSE <<Head(sorted)>> \o InsertFile(folderPath, Tail(sorted), x)

RECURSIVE SortFiles(_, _)
SortFiles(folderPath, s) ==
    IF s = <<>> THEN <<>>
    ELSE InsertFile(folderPath,
                    SortFiles(folderPath, SubSeq(s, 1, Len(s) - 1)), s[Len(s)])

\* Array.prototype.sort (stable) with the directory comparator
RECURSIVE InsertDir(_, _, _)
InsertDir(folderPath, sorted, x) ==
    IF sorted = <<>> THEN <<x>>
    ELSE IF dirCompare(folderPath, x, Head(sorted)) < 0 THEN <<x>> \o sorted
    ELSE <<Head(sorted)>> \o InsertDir(folderPath, Tail(sorted), x)

RECURSIVE SortDirs(_, _)
SortDirs(folderPath, s) ==
    IF s = <<>> THEN <<>>
    ELSE InsertDir(folderPath,
                   SortDirs(folderPath, SubSeq(s, 1, Len(s) - 1)), s[Len(s)])

\* the three filters applied to the directory entries before the file sort
IsListedFile(folderPath, n) ==
    /\ IsFile(out, folderPath \o <<n>>)
    /\ IsMarkupName(n)
    /\ n # DOCS_JSON
    /\ ~ StartsWithUnderscore(n)

\* a test that keeps every subdirectory
KeepGroup_always(subPages) == TRUE

\* the subPages.length > 0 test
KeepGroup(subPages) == Len(subPages) > 0

RECURSIVE generatePagesFromFolder(_, _)
generatePagesFromFolder(folderPath, prefix) ==
    IF ~ Exists(out, folderPath) THEN <<>>
    ELSE
    LET files == readdir(out, folderPath)
        mdFiles == SortFiles(folderPath,
                       SelectSeq(files, LAMBDA n : IsListedFile(folderPath, n)))
        filePages == [i \in 1..Len(mdFiles) |->
                         Page(prefix \o <<StripMarkupExt(mdFiles[i])>>)]
        dirs == SortDirs(folderPath,
                    SelectSeq(files, LAMBDA n : IsDir(out, folderPath \o <<n>>)))
        groupOf(d) == [group |-> SegOf(d),
                       pages |-> generatePagesFromFolder(
                                     folderPath \o <<d>>, prefix \o <<SegOf(d)>>)]
        groups == [i \in 1..Len(dirs) |-> groupOf(dirs[i])]
    IN filePages \o SelectSeq(groups, LAMBDA g : KeepGroup(g.pages))

RECURSIVE countPagesRecursively(_)
countPagesRecursively(pages) ==
    IF pages = <<>> THEN 0
    ELSE (IF IsPage(Head(pages)) THEN 1
          ELSE IF Has(Head(pages), "pages")
               THEN countPagesRecursively(Head(pages).pages) ELSE 0)
         + countPagesRecursively(Tail(pages))

\* readMintConfig(filePath) on the output tree
readMintConfig(fs, p) ==
    IF IsFile(fs, p) /\ fs[p].content.t = "json" /\ fs[p].content.valid
    THEN Ok(fs[p].content)
    ELSE Err

\* the optional icon and tag of a tab carried over to a group
CopyOptional(from, to) ==
    LET a == IF Has(from, "icon") THEN With(to, "icon", from.icon) ELSE to
    IN IF Has(from, "tag") THEN With(a, "tag", from.tag) ELSE a

RECURSIVE FlattenTabs(_)
FlattenTabs(tabs) ==
    IF tabs = <<>> THEN <<>>
    ELSE LET tab == Head(tabs)
             items == IF Has(tab, "groups") THEN tab.groups
                      ELSE IF Has(tab, "pages")
                      THEN <<CopyOptional(tab,
                                 [group |-> tab.tab, pages |-> tab.pages])>>
                      ELSE <<>>
         IN items \o FlattenTabs(Tail(tabs))

\* a conversion that always wraps the groups in a container group
convertNavigationToGroup_wrapAlways(navigation, groupName) ==
    [group |-> groupName,
     pages |-> <<[group |-> groupName,
                  pages |-> IF Has(navigation, "groups") THEN navigation.groups
                            ELSE IF Has(navigation, "tabs")
                            THEN FlattenTabs(navigation.tabs)
                            ELSE <<>>]>>]

convertNavigationToGroup(navigation, groupName) ==
    LET allItems ==
            IF Has(navigation, "tabs") THEN FlattenTabs(navigation.tabs)
            ELSE IF Has(navigation, "groups") THEN navigation.groups
            ELSE IF Has(navigation, "pages") /\ Len(navigation.pages) > 0
            THEN <<[group |-> groupName, pages |-> navigation.pages]>>
            ELSE <<>>
    IN IF Len(allItems) = 1 /\ ~ IsPage(allItems[1])
       THEN allItems[1]
       ELSE [group |-> groupName, pages |-> allItems]

\* the folder and prefix chosen by processAutogeneration
ResolveFolder(folder, currentPrefix) ==
    IF currentPrefix # <<>>
    THEN IF Exists(out, PathOfSegs(currentPrefix \o folder))
         THEN [folderPath |-> PathOfSegs(currentPrefix \o folder),
               prefix |-> currentPrefix \o folder]
         ELSE [folderPath |-> PathOfSegs(currentPrefix),
               prefix |-> currentPrefix]
    ELSE IF Exists(out, PathOfSegs(folder))
         THEN [folderPath |-> PathOfSegs(folder), prefix |-> folder]
         ELSE [folderPath |-> GENERATED_DIR, prefix |-> <<>>]

RECURSIVE processAutogeneration(_, _, _)
RECURSIVE processNavigationGroup(_, _, _)
RECURSIVE processNavigationTab(_, _, _)
RECURSIVE processDocsNavigation(_, _, _)
RECURSIVE prependPrefix(_, _, _)

\* fuel is the call depth left before the stack overflows (a RangeError)
processAutogeneration(item, currentPrefix, fuel) ==
    LET r == ResolveFolder(item.autogenerate, currentPrefix)
        docsJsonPath == r.folderPath \o <<DOCS_JSON>>
    IN IF fuel = 0 THEN RangeError
       ELSE IF Exists(out, docsJsonPath)
       THEN LET cfg == readMintConfig(out, docsJsonPath)
                processed == processDocsNavigation(cfg.v.nav, r.prefix, fuel - 1)
                groupNavigation ==
                    convertNavigationToGroup(processed.v,
                        IF cfg.v.name # "" THEN cfg.v.name ELSE "Documentation")
            IN IF ~ cfg.ok THEN cfg
               ELSE IF ~ processed.ok THEN processed
               ELSE Ok(IF Has(groupNavigation, "pages")
                       THEN groupNavigation.pages ELSE <<>>)
       ELSE IF Exists(out, r.folderPath) /\ ~ IsDir(out, r.folderPath)
       THEN Err  \* readdirSync of a file throws
       ELSE Ok(generatePagesFromFolder(r.folderPath, r.prefix))

prependPrefix(group, prefix, fuel) ==
    IF ~ Has(group, "pages")
    THEN processNavigationGroup(group, prefix, fuel)
    ELSE LET rs == [i \in 1..Len(group.pages) |->
                       IF IsPage(group.pages[i])
                       THEN Ok(Page(prefix \o group.pages[i].page))
                       ELSE prependPrefix(group.pages[i], prefix, fuel)]
         IN Setting(group, "pages", Collect(rs))

processNavigationGroup(group, currentPrefix, fuel) ==
    IF HasAuto(group)
    THEN Setting(group, "pages",
                 processAutogeneration(group, currentPrefix, fuel))
    ELSE IF Has(group, "pages")
    THEN IF currentPrefix # <<>>
         THEN prependPrefix(group, currentPrefix, fuel)
         ELSE LET rs == [i \in 1..Len(group.pages) |->
                            IF IsPage(group.pages[i]) THEN Ok(group.pages[i])
                            ELSE processNavigationGroup(group.pages[i],
                                                        currentPrefix, fuel)]
              IN Setting(group, "pages", Collect(rs))
    ELSE Ok(group)

processNavigationTab(tab, currentPrefix, fuel) ==
    IF HasAuto(tab)
    THEN Setting(tab, "pages", processAutogeneration(tab, currentPrefix, fuel))
    ELSE IF Has(tab, "groups")
    THEN LET rs == [i \in 1..Len(tab.groups) |->
                       processNavigationGroup(tab.groups[i], currentPrefix, fuel)]
         IN Setting(tab, "groups", Collect(rs))
    ELSE IF Has(tab, "pages")
    THEN LET rs == [i \in 1..Len(tab.pages) |->
                       IF IsPage(tab.pages[i]) THEN Ok(tab.pages[i])
                       ELSE processNavigationGroup(tab.pages[i],
                                                   currentPrefix, fuel)]
         IN Setting(tab, "pages", Collect(rs))
    ELSE Ok(tab)

processDocsNavigation(navigation, prefix, fuel) ==
    IF Has(navigation, "tabs")
    THEN LET rs == [i \in 1..Len(navigation.tabs) |->
                       processNavigationTab(navigation.tabs[i], prefix, fuel)]
         IN Setting(<<>>, "tabs", Collect(rs))
    ELSE IF Has(navigation, "groups")
    THEN LET rs == [i \in 1..Len(navigation.groups) |->
                       processNavigationGroup(navigation.groups[i], prefix, fuel)]
         IN Setting(<<>>, "groups", Collect(rs))
    ELSE IF Has(navigation, "pages")
    THEN LET rs == [i \in 1..Len(navigation.pages) |->
                       IF IsPage(navigation.pages[i]) THEN Ok(navigation.pages[i])
                       ELSE processNavigationGroup(navigation.pages[i],
                                                   prefix, fuel)]
         IN Setting(<<>>, "pages", Collect(rs))
    ELSE Err

----------------------------------------------------------------------------
(* generateDocs after the materialization phase *)

\* the time a plain writeFileSync stamps on a file; source mtimes are smaller
Now == 10 + runs

\* a writer that never compares
shouldWrite_always(fs, p, content) == TRUE

\* writeMintConfig(path.join(GENERATED_DIR, "docs.json"), data)
shouldWrite(fs, p, content) ==
    ~ (IsFile(fs, p) /\ fs[p].content = content)

writeMintConfig(fs, p, content) ==
    IF shouldWrite(fs, p, content)
    THEN Put(fs, p, [kind |-> "file", mtime |-> Now, content |-> content])
    ELSE fs

\* the base-config check, readMintConfig and processDocsNavigation of
\* generateDocs: the final navigation, or Err when one of them throws
finalNavigation ==
    IF ~ Exists(src, BASE_CONFIG_PATH) THEN Err
    ELSE IF ~ readMintConfig(src, BASE_CONFIG_PATH).ok THEN Err
    ELSE processDocsNavigation(readMintConfig(src, BASE_CONFIG_PATH).v.nav,
                               <<>>, MaxDepth)

\* generateDocs from the base-config check to processDocsNavigation
Synthesize ==
    /\ pc = "copy"
    /\ stack = <<>>
    /\ \E nav \in {finalNavigation} :
          IF nav.ok
          THEN pc' = "write" /\ finalNav' = nav.v
          ELSE pc' = "failed" /\ finalNav' = finalNav
    /\ UNCHANGED <<src, out, cacheFile, sidebarPositions, enumRev, stack,
                   clean, runs, edits, hist, navIn, navOut>>

\* the writeMintConfig call of generateDocs
WriteConfig ==
    /\ pc = "write"
    /\ LET p == GENERATED_DIR \o <<DOCS_JSON>>
           finalConfig == With(src[BASE_CONFIG_PATH].content, "nav", finalNav)
       IN /\ out' = writeMintConfig(out, p, finalConfig)
          /\ hist' = IF shouldWrite(out, p, finalConfig)
                     THEN [hist EXCEPT !.wrote = @ \cup {p}]
                     ELSE hist
    /\ pc' = "save"
    /\ UNCHANGED <<src, cacheFile, sidebarPositions, enumRev, stack, clean,
                   finalNav, runs, edits, navIn, navOut>>

\* the saveSidebarPositions call of generateDocs
SaveCache ==
    /\ pc = "save"
    /\ cacheFile' = saveSidebarPositions(cacheFile, sidebarPositions).file
    /\ pc' = "done"
    /\ UNCHANGED <<src, out, sidebarPositions, enumRev, stack, clean,
                   finalNav, runs, edits, hist, navIn, navOut>>

----------------------------------------------------------------------------
(* What happens to the inputs between two runs *)

Mtimes == {1, 2}
Hints == {NoHint, 1, 2}
\* the sidebar_position an edit leaves in a file
NewHints == {NoHint, 1}
Bodies == {1, 2}

\* the process has exited and may be started again
BetweenRuns ==
    pc \in {"idle", "done", "failed"} /\ runs > 0 /\ runs < MaxRuns /\ edits < MaxEdits

IsMarkupSource(p) ==
    IsFile(src, p) /\ IsMarkupName(Last(p)) /\ src[p].content.t = "md"

\* a source file is edited: new content, new modification time
TouchSource(p, m, h) ==
    /\ BetweenRuns
    /\ IsMarkupSource(p)
    /\ m # src[p].mtime
    /\ src' = [src EXCEPT ![p].mtime = m,
                          ![p].content.hint = h,
                          ![p].content.body =
                              <<Txt(CHOOSE b \in Bodies : <<Txt(b)>> # @)>>]
    /\ edits' = edits + 1
    /\ hist' = [hist EXCEPT !.pending = @ \cup {"src"},
                            !.completed = @ \/ pc = "done"]
    /\ pc' = "idle"
    /\ UNCHANGED <<out, cacheFile, sidebarPositions, enumRev, stack,
                   clean, finalNav, runs, navIn, navOut>>

\* a source file is deleted
RemoveSource(p) ==
    /\ BetweenRuns
    /\ IsMarkupSource(p)
    /\ src' = [q \in DOMAIN src \ {p} |-> src[q]]
    /\ edits' = edits + 1
    /\ hist' = [hist EXCEPT !.pending = @ \cup {"src"},
                            !.completed = @ \/ pc = "done"]
    /\ pc' = "idle"
    /\ UNCHANGED <<out, cacheFile, sidebarPositions, enumRev, stack,
                   clean, finalNav, runs, navIn, navOut>>

\* .sidebar-positions.json is deleted
DeleteCacheFile ==
    /\ BetweenRuns
    /\ cacheFile.exists
    /\ cacheFile' = NoCacheFile
    /\ edits' = edits + 1
    /\ hist' = [hist EXCEPT !.pending = @ \cup {"cache"},
                            !.completed = @ \/ pc = "done"]
    /\ pc' = "idle"
    /\ UNCHANGED <<src, out, sidebarPositions, enumRev, stack,
                   clean, finalNav, runs, navIn, navOut>>

----------------------------------------------------------------------------
(* The source trees considered *)

T(p) == TEMPLATE_DIR \o p
S(p) == SUBMODULES_DIR \o p

Dir == [kind |-> "dir"]
Link(target) == [kind |-> "link", target |-> target]
Text(fm, data, h, body) ==
    [t |-> "md", fm |-> fm, fmt |-> "written", data |-> data, hint |-> h,
     body |-> body]
Md(m, b, h) == [kind |-> "file", mtime |-> m,
                content |-> Text("ok", [title |-> "Doc"], h, <<Txt(b)>>)]
Raw(m, b) == [kind |-> "file", mtime |-> m, content |-> [t |-> "raw", body |-> b]]
Json(m, name, nav) ==
    [kind |-> "file", mtime |-> m,
     content |-> [t |-> "json", valid |-> TRUE, name |-> name, nav |-> nav]]

BaseNav ==
    [groups |-> <<[group |-> "Guide", autogenerate |-> <<"guide">>],
                  [group |-> "Protocol", autogenerate |-> <<"protocol">>]>>]

SubNav == [groups |-> <<[group |-> "API", pages |-> <<Page(<<"overview">>)>>]>>]

RootNav == [pages |-> <<Page(<<"index">>)>>]

\* Always there: the base config, a folder with two pages holding ordering
\* hints, a picture and a link to a file, and a folder reached through a
\* link to a link.
CoreTree ==
    (TEMPLATE_DIR :> Dir) @@ (SUBMODULES_DIR :> Dir)
    @@ (BASE_CONFIG_PATH :> Json(1, "Docs", BaseNav))
    @@ (T(<<N("guide", "")>>) :> Dir)
    @@ (T(<<N("guide", ""), N("alpha", "md")>>) :> Md(1, 1, 2))
    @@ (T(<<N("guide", ""), N("beta", "md")>>) :> Md(1, 1, 1))
    @@ (T(<<N("guide", ""), N("img", "png")>>) :> Raw(1, 1))
    @@ (T(<<N("guide", ""), N("zeta", "md")>>)
            :> Link(S(<<N("docs", ""), N("overview", "md")>>)))
    @@ (T(<<N("protocol", "")>>) :> Link(S(<<N("link2", "")>>)))
    @@ (S(<<N("link2", "")>>) :> Link(S(<<N("docs", "")>>)))
    @@ (S(<<N("docs", "")>>) :> Dir)
    @@ (S(<<N("docs", ""), N("overview", "md")>>) :> Md(2, 1, 1))

\* Sometimes there
CollisionPart == T(<<N("guide", ""), N("alpha", "mdx")>>) :> Md(2, 2, 1)
RootDocsPart == T(<<DOCS_JSON>>) :> Json(1, "Old", RootNav)
SubNavPart == S(<<N("docs", ""), DOCS_JSON>>) :> Json(1, "Protocol", SubNav)

SourceTrees ==
    {CoreTree @@ (IF c THEN CollisionPart ELSE <<>>)
              @@ (IF r THEN RootDocsPart ELSE <<>>)
              @@ (IF n THEN SubNavPart ELSE <<>>)
        : c \in BOOLEAN, r \in BOOLEAN, n \in BOOLEAN}
    \* the same without the base config
    \cup {[p \in DOMAIN tree \ {BASE_CONFIG_PATH} |-> tree[p]] :
             tree \in {CoreTree, CoreTree @@ RootDocsPart}}
    \* and with a base config that JSON.parse rejects
    \cup {(BASE_CONFIG_PATH :>
             [kind |-> "file", mtime |-> 1,
              content |-> [t |-> "json", valid |-> FALSE, name |-> "", nav |-> <<>>]])
          @@ tree : tree \in {CoreTree, CoreTree @@ RootDocsPart}}

\* a base config that was missing or not valid JSON is put right
RepairBaseConfig ==
    /\ BetweenRuns
    /\ ~ (Exists(src, BASE_CONFIG_PATH) /\ readMintConfig(src, BASE_CONFIG_PATH).ok)
    /\ src' = (BASE_CONFIG_PATH :> Json(2, "Docs", BaseNav)) @@ src
    /\ edits' = edits + 1
    /\ hist' = [hist EXCEPT !.pending = @ \cup {"base"},
                            !.completed = @ \/ pc = "done"]
    /\ pc' = "idle"
    /\ UNCHANGED <<out, cacheFile, sidebarPositions, enumRev, stack,
                   clean, finalNav, runs, navIn, navOut>>

NoHist == [reads |-> {}, wrote |-> {}, copied |-> {},
           snapOut |-> <<>>, snapCache |-> NoCacheFile,
           prevDone |-> FALSE, prevClean |-> FALSE, completed |-> FALSE,
           edited |-> {}, pending |-> {}]

Init ==
    /\ src \in SourceTrees
    /\ out = <<>>
    /\ cacheFile = NoCacheFile
    /\ sidebarPositions = EmptyMap
    /\ enumRev \in BOOLEAN
    /\ pc = "idle"
    /\ stack = <<>>
    /\ clean = FALSE
    /\ finalNav = <<>>
    /\ runs = 0
    /\ edits = 0
    /\ hist = NoHist
    /\ navIn = <<>>
    /\ navOut = <<>>

Next ==
    \/ \E c \in BOOLEAN : StartRun(c)
    \/ CopyStep
    \/ Synthesize
    \/ WriteConfig
    \/ SaveCache
    \/ \E p \in DOMAIN src, m \in Mtimes, h \in NewHints : TouchSource(p, m, h)
    \/ \E p \in DOMAIN src : RemoveSource(p)
    \/ DeleteCacheFile
    \/ RepairBaseConfig

Spec == Init /\ [][Next]_vars

----------------------------------------------------------------------------
(* generatePagesFromFolder on its own: output folders and cache contents   *)
(* the materializer can leave behind.                                      *)

Page1(b, h) == [kind |-> "file", mtime |-> 1,
                content |-> [t |-> "page", body |-> b, hint |-> h, edit |-> <<>>]]

G(p) == <<N("guide", "")>> \o p

FolderFiles == {N("README", "mdx"), N("index", "mdx"), N("alpha", "mdx"),
                N("beta", "mdx"), N("zeta", "mdx"), N("_draft", "mdx")}

SUB == N("sub", "")

\* what the folder holds besides its markup files
FolderExtras ==
    { <<>>,
      (G(<<N("img", "png")>>) :> Raw(1, 1)) @@ (G(<<DOCS_JSON>>) :> Raw(1, 1)) }

\* the subdirectories: none, empty, a picture only, an empty directory only,
\* one page, one page one level further down, two subdirectories of one
\* page each
SubTrees ==
    { <<>>,
      G(<<SUB>>) :> Dir,
      (G(<<SUB>>) :> Dir) @@ (G(<<SUB, N("img", "png")>>) :> Raw(1, 1)),
      (G(<<SUB>>) :> Dir) @@ (G(<<SUB, SUB>>) :> Dir),
      (G(<<SUB>>) :> Dir) @@ (G(<<SUB, N("overview", "mdx")>>) :> Page1(1, NoHint)),
      (G(<<SUB>>) :> Dir) @@ (G(<<SUB, SUB>>) :> Dir)
          @@ (G(<<SUB, SUB, N("overview", "mdx")>>) :> Page1(1, NoHint)),
      (G(<<SUB>>) :> Dir) @@ (G(<<SUB, N("overview", "mdx")>>) :> Page1(1, NoHint))
          @@ (G(<<N("API", "")>>) :> Dir)
          @@ (G(<<N("API", ""), N("intro", "mdx")>>) :> Page1(1, NoHint)) }

FolderTrees ==
    { (<<>> :> Dir) @@ (G(<<>>) :> Dir)
        @@ [p \in {G(<<n>>) : n \in fs} |-> Page1(1, NoHint)] @@ x @@ sub
      : fs \in SUBSET FolderFiles, x \in FolderExtras, sub \in SubTrees }

RECURSIVE MapOfHints(_, _)
MapOfHints(names, h) ==
    IF names = <<>> THEN EmptyMap
    ELSE LET m == MapOfHints(Tail(names), h)
         IN IF h[Head(names)] = NoHint THEN m
            ELSE MapSet(m, G(<<N(Head(names), "mdx")>>), h[Head(names)])

InitFolder ==
    /\ src = <<>>
    /\ out \in FolderTrees
    /\ cacheFile = NoCacheFile
    /\ sidebarPositions \in
          { MapOfHints(<<"alpha", "beta", "zeta">>, h) :
              h \in {g \in [{"alpha", "beta", "zeta"} -> Hints] : g["zeta"] # 2} }
    /\ enumRev \in BOOLEAN
    /\ pc = "folder"
    /\ stack = <<>>
    /\ clean = FALSE
    /\ finalNav = <<>>
    /\ runs = 0
    /\ edits = 0
    /\ hist = NoHist
    /\ navIn = [folderPath |-> G(<<>>), prefix |-> <<"guide">>]
    /\ navOut = <<>>

\* one call generatePagesFromFolder(folderPath, prefix)
GenerateFolder ==
    /\ pc = "folder"
    /\ navOut' = generatePagesFromFolder(navIn.folderPath, navIn.prefix)
    /\ pc' = "folderDone"
    /\ UNCHANGED <<src, out, cacheFile, sidebarPositions, enumRev, stack,
                   clean, finalNav, runs, edits, hist, navIn>>

\* the same folder and cache, enumerated by the file system in the other
\* order; finalNav keeps the result of the call before
Reenumerate ==
    /\ pc = "folderDone"
    /\ runs = 0
    /\ enumRev' = ~ enumRev
    /\ finalNav' = navOut
    /\ runs' = 1
    /\ pc' = "folder"
    /\ UNCHANGED <<src, out, cacheFile, sidebarPositions, stack, clean,
                   edits, hist, navIn, navOut>>

NextFolder == GenerateFolder \/ Reenumerate

SpecFolder == InitFolder /\ [][NextFolder]_vars

----------------------------------------------------------------------------
(* processDocsNavigation on its own: sub-navigation documents of every     *)
(* shape, processed with and without a prefix over a small output tree.    *)

MaxNest == 2

P1 == Page(<<"overview">>)
P2 == Page(<<"api", "intro">>)

LeafGroups ==
    { [group |-> "A", pages |-> <<P1>>],
      [group |-> "A", pages |-> <<>>],
      [group |-> "A"],
      [group |-> "A", autogenerate |-> <<"sub">>],
      [group |-> "A", autogenerate |-> <<"sub">>, pages |-> <<P1>>],
      [group |-> "A", autogenerate |-> <<"missing">>] }

RECURSIVE GroupsOfDepth(_)
GroupsOfDepth(d) ==
    IF d = 0 THEN {}
    ELSE LeafGroups
         \cup {[group |-> "B", pages |-> <<P2, g>>] : g \in GroupsOfDepth(d - 1)}

NavTabs ==
    {[tab |-> "T", groups |-> <<g>>] : g \in GroupsOfDepth(MaxNest)}
    \cup {[tab |-> "T", pages |-> <<P1, g>>] : g \in LeafGroups}
    \cup { [tab |-> "T", pages |-> <<P1>>],
           [tab |-> "T", icon |-> "book", pages |-> <<P1, P2>>],
           [tab |-> "T", autogenerate |-> <<"sub">>],
           [tab |-> "T"] }

NavDocs ==
    {[tabs |-> <<t>>] : t \in NavTabs}
    \cup {[tabs |-> <<t, [tab |-> "U", pages |-> <<P2>>]>>] : t \in NavTabs}
    \cup {[groups |-> <<g>>] : g \in GroupsOfDepth(MaxNest)}
    \cup {[groups |-> <<g, h>>] : g \in LeafGroups, h \in LeafGroups}
    \cup {[pages |-> <<P1, g>>] : g \in GroupsOfDepth(MaxNest)}
    \cup { [pages |-> <<P1>>], [pages |-> <<>>], [none |-> TRUE] }

NavTree ==
    (<<>> :> Dir)
    @@ (<<N("index", "mdx")>> :> Page1(1, NoHint))
    @@ (<<N("protocol", "")>> :> Dir)
    @@ (<<N("protocol", ""), N("README", "mdx")>> :> Page1(1, NoHint))
    @@ (<<N("protocol", ""), SUB>> :> Dir)
    @@ (<<N("protocol", ""), SUB, N("overview", "mdx")>> :> Page1(1, NoHint))
    @@ (<<SUB>> :> Dir)
    @@ (<<SUB, N("zeta", "mdx")>> :> Page1(1, NoHint))

InitNav ==
    /\ src = <<>>
    /\ out = NavTree
    /\ cacheFile = NoCacheFile
    /\ sidebarPositions = EmptyMap
    /\ enumRev = FALSE
    /\ pc = "nav"
    /\ stack = <<>>
    /\ clean = FALSE
    /\ finalNav = <<>>
    /\ runs = 0
    /\ edits = 0
    /\ hist = NoHist
    /\ navIn \in [nav : NavDocs, prefix : {<<>>, <<"protocol">>}]
    /\ navOut = <<>>

\* one call processDocsNavigation(navigation, prefix)
ProcessNav ==
    /\ pc = "nav"
    /\ navOut' = processDocsNavigation(navIn.nav, navIn.prefix, MaxDepth)
    /\ pc' = "navDone"
    /\ UNCHANGED <<src, out, cacheFile, sidebarPositions, enumRev, stack,
                   clean, finalNav, runs, edits, hist, navIn>>

NextNav == ProcessNav

SpecNav == InitNav /\ [][NextNav]_vars

----------------------------------------------------------------------------
(* processAutogeneration over output trees that hold a docs.json: in the   *)
(* folder a directive names, or at the root, where each run's              *)
(* writeMintConfig leaves the navigation it has synthesized.               *)

API == N("api", "")
PROTOCOL == N("protocol", "")

GA == [group |-> "API", pages |-> <<Page(<<"overview">>)>>]
GB == [group |-> "More",
       pages |-> <<Page(<<"intro">>),
                   [group |-> "Deep", pages |-> <<Page(<<"api", "ref">>)>>]>>]

\* the docs.json found in the folder protocol
SubDocs ==
    { Json(1, "", [groups |-> <<GA, GB>>]),
      [kind |-> "file", mtime |-> 1,
       content |-> [t |-> "json", valid |-> FALSE, name |-> "", nav |-> <<>>]] }
    \cup
    { Json(1, "Protocol", nav) : nav \in
        { [groups |-> <<GA>>],
          [groups |-> <<GB>>],
          [groups |-> <<[group |-> "Ref", autogenerate |-> <<"api">>]>>],
          [groups |-> <<GA, GB>>],
          [groups |-> <<GB, GA, [group |-> "Ref", autogenerate |-> <<"api">>]>>],
          [tabs |-> <<[tab |-> "One", groups |-> <<GA>>]>>],
          [tabs |-> <<[tab |-> "One", groups |-> <<GA, GB>>]>>],
          [tabs |-> <<[tab |-> "One", groups |-> <<GA>>],
                      [tab |-> "Two", groups |-> <<GB>>]>>],
          [tabs |-> <<[tab |-> "One", icon |-> "book",
                       pages |-> <<Page(<<"overview">>)>>]>>],
          [pages |-> <<Page(<<"overview">>), Page(<<"intro">>)>>],
          [groups |-> <<[group |-> "Loop", autogenerate |-> <<"missing">>]>>],
          [groups |-> <<[group |-> "Self", autogenerate |-> <<"protocol">>]>>] } }

AutoCore ==
    (<<>> :> Dir)
    @@ (<<N("index", "mdx")>> :> Page1(1, NoHint))
    @@ (<<N("guide", "")>> :> Dir)
    @@ (<<N("guide", ""), N("alpha", "mdx")>> :> Page1(1, NoHint))
    @@ (<<PROTOCOL>> :> Dir)
    @@ (<<PROTOCOL, N("intro", "mdx")>> :> Page1(1, NoHint))
    @@ (<<PROTOCOL, N("overview", "mdx")>> :> Page1(1, NoHint))
    @@ (<<PROTOCOL, API>> :> Dir)
    @@ (<<PROTOCOL, API, N("ref", "mdx")>> :> Page1(1, NoHint))

AutoTrees == {AutoCore} \cup {AutoCore @@ (<<PROTOCOL, DOCS_JSON>> :> d) : d \in SubDocs}

\* the navigation of docs-base.json
AutoRequests ==
    { [groups |-> <<[group |-> "Protocol", autogenerate |-> <<"protocol">>]>>],
      [groups |-> <<[group |-> "Guide", autogenerate |-> <<"guide">>],
                    [group |-> "Protocol", autogenerate |-> <<"protocol">>]>>],
      [groups |-> <<[group |-> "Protocol", autogenerate |-> <<"protocol">>,
                     pages |-> <<Page(<<"index">>)>>]>>],
      [groups |-> <<[group |-> "Gone", autogenerate |-> <<"missing">>]>>],
      [groups |-> <<[group |-> "Ref", autogenerate |-> <<"api">>]>>],
      [tabs |-> <<[tab |-> "Docs", autogenerate |-> <<"protocol">>]>>],
      [tabs |-> <<[tab |-> "Docs", autogenerate |-> <<"protocol">>,
                   groups |-> <<GA>>]>>] }

InitAuto ==
    /\ src = <<>>
    /\ out \in AutoTrees
    /\ cacheFile = NoCacheFile
    /\ sidebarPositions = EmptyMap
    /\ enumRev = FALSE
    /\ pc = "nav"
    /\ stack = <<>>
    /\ clean = FALSE
    /\ finalNav = <<>>
    /\ runs = 0
    /\ edits = 0
    /\ hist = NoHist
    /\ navIn \in [nav : AutoRequests, prefix : {<<>>, <<"protocol">>}]
    /\ navOut = <<>>

\* the writeMintConfig call that ends a run of generateDocs, and the start
\* of the next run on the same base navigation
WriteBack ==
    /\ pc = "navDone"
    /\ navOut.ok
    /\ navIn.prefix = <<>>
    /\ runs < MaxRuns
    /\ out' = writeMintConfig(out, GENERATED_DIR \o <<DOCS_JSON>>,
                  [t |-> "json", valid |-> TRUE, name |-> "Docs", nav |-> navOut.v])
    /\ pc' = "nav"
    /\ navOut' = <<>>
    /\ runs' = runs + 1
    /\ UNCHANGED <<src, cacheFile, sidebarPositions, enumRev, stack, clean,
                   finalNav, edits, hist, navIn>>

SpecAuto == InitAuto /\ [][ProcessNav \/ WriteBack]_vars

----------------------------------------------------------------------------
(* processMarkdownFrontmatter on its own, over small texts.                *)

\* Each of the keys the transformer looks at is absent, empty or set, a key
\* it does not look at is there or not; the body has at most MaxLines
\* lines: text, empty lines, "# ..." and "## ..." headings.
Texts ==
    { Text("ok", [k \in K |-> v[k]], h, b) :
        K \in SUBSET {"title", "sidebar_label", "sidebarTitle", "description"},
        v \in { [title |-> t, sidebar_label |-> l, sidebarTitle |-> st,
                 description |-> "D"] :
                  t \in {"", "Title"}, l \in {"", "Label"}, st \in {"", "Side"} },
        h \in {NoHint, 1},
        b \in UNION { [1..n -> {Txt(1), Blank, H1("Head"), H1("Next"),
                               Line("h2", "Sub", 0, <<>>)}] : n \in 0..MaxLines } }

InitText ==
    /\ src = <<>>
    /\ out = <<>>
    /\ cacheFile = NoCacheFile
    /\ sidebarPositions = EmptyMap
    /\ enumRev = FALSE
    /\ pc = "text"
    /\ stack = <<>>
    /\ clean = FALSE
    /\ finalNav = <<>>
    /\ runs = 0
    /\ edits = 0
    /\ hist = NoHist
    /\ navIn \in Texts
    /\ navOut = <<>>

ProcessText ==
    /\ pc = "text"
    /\ navOut' = processMarkdownFrontmatter(navIn)
    /\ pc' = "textDone"
    /\ UNCHANGED <<src, out, cacheFile, sidebarPositions, enumRev, stack,
                   clean, finalNav, runs, edits, hist, navIn>>

SpecText == InitText /\ [][ProcessText]_vars

----------------------------------------------------------------------------
(* copyAllTemplateFiles over a template folder of two markup files, the    *)
(* first with any frontmatter, valid or not, and links in its body, in the *)
(* folder itself or under snippets.                                        *)

LinkPaths ==
    { <<"name", ".md">>, <<"./", "name", ".md">>, <<"../", "name", ".mdx">>,
      <<"/", "name", ".md", "#", "frag">>, <<"name">>, <<"#", "frag">>,
      <<"name", ".md", ".md">>, <<"name", ".md", "?", "q", "=", "v">>,
      <<"https://", "name", ".md">>, <<"http://", "name">>,
      <<"name", "://", "name", ".md">> }

FileTrees ==
    { (TEMPLATE_DIR :> Dir)
      @@ (T(d) :> Dir)
      @@ (T(d \o <<N("alpha", e)>>) :>
            [kind |-> "file", mtime |-> m, git |-> g,
             content |-> Text(fm, data, h, b)])
      @@ (T(d \o <<N("beta", "md")>>) :> Md(1, 1, 2))
      @@ (T(d \o <<N("img", "png")>>) :> Raw(1, 1)) :
        d \in {<<>>, <<N("snippets", "")>>, <<N("guide", "")>>},
        e \in {"md", "mdx"}, m \in Mtimes, g \in {"", "2024-01-01"},
        fm \in {"ok", "bad"},
        data \in {<<>>, [title |-> "Doc"], [sidebar_label |-> "Label"]},
        h \in {NoHint, 1},
        b \in {<<Txt(1)>>}
              \cup {<<H1("Head"), LinkLine(l)>> : l \in LinkPaths}
              \cup {<<LinkLine(l), Blank, Txt(1)>> : l \in LinkPaths} }
    \* a folder holding a link to the folder itself
    \cup { (TEMPLATE_DIR :> Dir)
           @@ (T(<<N("guide", "")>>) :> Dir)
           @@ (T(<<N("guide", ""), N("alpha", "md")>>) :> Md(1, 1, 1))
           @@ (T(<<N("guide", ""), N("loop", "")>>) :>
                 Link(T(<<N("guide", "")>>))) }

InitFile ==
    /\ src \in FileTrees
    /\ out = (<<>> :> Dir)
    /\ cacheFile = NoCacheFile
    /\ sidebarPositions = EmptyMap
    /\ enumRev = FALSE
    /\ pc = "copy"
    /\ stack = TemplateTasks
    /\ clean = FALSE
    /\ finalNav = <<>>
    /\ runs = 1
    /\ edits = 0
    /\ hist = NoHist
    /\ navIn = <<>>
    /\ navOut = <<>>

\* Between two materializations the file alpha moves into a submodule, a
\* link taking its place in the template: the same content, a newer mtime,
\* and whatever git log answers for the file in the submodule's repository.
Relocate ==
    /\ pc = "copy"
    /\ stack = <<>>
    /\ runs = 1
    /\ \E p \in DOMAIN src, g \in {"", "2024-01-01", "2024-02-02"} :
          /\ IsFile(src, p)
          /\ Last(p).stem = "alpha"
          /\ src' = (p :> Link(S(<<Last(p)>>)))
                    @@ (SUBMODULES_DIR :> Dir)
                    @@ (S(<<Last(p)>>) :>
                          [src[p] EXCEPT !.mtime = 3, !.git = g])
                    @@ src
    /\ stack' = TemplateTasks
    /\ runs' = 2
    /\ hist' = [NoHist EXCEPT !.snapOut = out]
    /\ UNCHANGED <<out, cacheFile, sidebarPositions, enumRev, pc, clean,
                   finalNav, edits, navIn, navOut>>

SpecFile == InitFile /\ [][CopyStep \/ Relocate]_vars

----------------------------------------------------------------------------
(* convertLocalMarkdownLinks on its own, applied to a text and then to its *)
(* own result. The link path is any sequence of at most MaxToks of the     *)
(* pieces the patterns of the rewriter tell apart.                         *)

InitLinks ==
    /\ src = <<>>
    /\ out = <<>>
    /\ cacheFile = NoCacheFile
    /\ sidebarPositions = EmptyMap
    /\ enumRev = FALSE
    /\ pc = "links"
    /\ stack = <<>>
    /\ clean = FALSE
    /\ finalNav = <<>>
    /\ runs = 0
    /\ edits = 0
    /\ hist = NoHist
    /\ navIn \in
          { Text("ok", [title |-> "Doc"], NoHint, <<LinkLine(l), Txt(1)>>) :
              l \in UNION { [1..n -> {"name", ".md", ".mdx", "#", "?", "=", "://",
                                      "https://", "./", "../", "/"}] :
                              n \in 1..MaxToks } }
    /\ navOut = <<>>

\* one call of convertLocalMarkdownLinks: on the text, then on the result
\* of the call before it, which finalNav keeps
ConvertLinks ==
    /\ pc \in {"links", "linksOnce"}
    /\ navOut' = convertLocalMarkdownLinks(IF pc = "links" THEN navIn ELSE navOut)
    /\ finalNav' = navOut
    /\ pc' = IF pc = "links" THEN "linksOnce" ELSE "linksTwice"
    /\ UNCHANGED <<src, out, cacheFile, sidebarPositions, enumRev, stack,
                   clean, runs, edits, hist, navIn>>

SpecLinks == InitLinks /\ [][ConvertLinks]_vars

----------------------------------------------------------------------------
(* Operators used to state the properties *)

\* the page strings of an item list, at any depth
RECURSIVE LeavesOfItems(_)
LeavesOfItems(items) ==
    UNION { IF IsPage(items[i]) THEN {items[i].page}
            ELSE IF Has(items[i], "pages") THEN LeavesOfItems(items[i].pages)
            ELSE {} : i \in 1..Len(items) }

LeavesOfTab(tab) ==
    (IF Has(tab, "groups") THEN LeavesOfItems(tab.groups) ELSE {})
    \cup (IF Has(tab, "pages") THEN LeavesOfItems(tab.pages) ELSE {})

LeavesOfNav(nav) ==
    (IF Has(nav, "tabs")
     THEN UNION {LeavesOfTab(nav.tabs[i]) : i \in 1..Len(nav.tabs)} ELSE {})
    \cup (IF Has(nav, "groups") THEN LeavesOfItems(nav.groups) ELSE {})
    \cup (IF Has(nav, "pages") THEN LeavesOfItems(nav.pages) ELSE {})

\* the page strings of an item list in order of appearance
RECURSIVE FlatLeaves(_)
FlatLeaves(items) ==
    IF items = <<>> THEN <<>>
    ELSE (IF IsPage(Head(items)) THEN <<Head(items).page>>
          ELSE IF Has(Head(items), "pages") THEN FlatLeaves(Head(items).pages)
          ELSE <<>>)
         \o FlatLeaves(Tail(items))

\* no group with an empty pages list, at any depth
RECURSIVE NoEmptyGroup(_)
NoEmptyGroup(items) ==
    \A i \in 1..Len(items) :
        IsPage(items[i])
        \/ (Has(items[i], "pages") /\ Len(items[i].pages) > 0
            /\ NoEmptyGroup(items[i].pages))

----------------------------------------------------------------------------
(* C5: within one folder every readme/index file precedes every other      *)
(* file, the other files are in ascending order of their Position Cache    *)
(* value with an absent value last, and files with equal keys are in       *)
(* alphabetical order; index, zeta (no hint), alpha (2), beta (1) come out *)
(* as index, beta, alpha, zeta.                                            *)

C5_IsReadme(stem) == stem \in {"README", "readme", "Readme", "index", "Index", "INDEX"}
C5_Alpha(stem) == IndexOf(StemOrder, stem)
C5_HasPos(stem) == \E i \in 1..Len(sidebarPositions) :
                       sidebarPositions[i].k = G(<<N(stem, "mdx")>>)
C5_Pos(stem) == sidebarPositions[CHOOSE i \in 1..Len(sidebarPositions) :
                       sidebarPositions[i].k = G(<<N(stem, "mdx")>>)].v

C5_MustPrecede(a, b) ==
    IF C5_IsReadme(a) # C5_IsReadme(b) THEN C5_IsReadme(a)
    ELSE IF C5_IsReadme(a) THEN C5_Alpha(a) < C5_Alpha(b)
    ELSE IF C5_HasPos(a) # C5_HasPos(b) THEN C5_HasPos(a)
    ELSE IF C5_HasPos(a) /\ C5_Pos(a) # C5_Pos(b) THEN C5_Pos(a) < C5_Pos(b)
    ELSE C5_Alpha(a) < C5_Alpha(b)

C5_FilePages == SelectSeq(navOut, IsPage)

C5_ListedStems ==
    {n.stem : n \in {m \in FolderFiles : G(<<m>>) \in DOMAIN out} \ {N("_draft", "mdx")}}

C5_IsExample ==
    /\ C5_ListedStems = {"index", "zeta", "alpha", "beta"}
    /\ MapGet(sidebarPositions, G(<<N("alpha", "mdx")>>)) = 2
    /\ MapGet(sidebarPositions, G(<<N("beta", "mdx")>>)) = 1
    /\ ~ MapHas(sidebarPositions, G(<<N("zeta", "mdx")>>))

C5_ExampleOrder ==
    <<<<"guide", "index">>, <<"guide", "beta">>, <<"guide", "alpha">>,
      <<"guide", "zeta">>>>

----------------------------------------------------------------------------
(* C7: with a non-empty prefix p every leaf page string of the processed   *)
(* sub-navigation document begins with p/, whatever the document's shape.  *)

C7_AllLeavesPrefixed ==
    (pc = "navDone" /\ navOut.ok /\ navIn.prefix # <<>>) =>
        \A l \in LeavesOfNav(navOut.v) :
            IsPrefixOf(navIn.prefix, l) /\ Len(l) > Len(navIn.prefix)

----------------------------------------------------------------------------
(* C9: a folder with no markup file anywhere below it yields an empty page *)
(* list, and generatePagesFromFolder never emits a group whose pages list  *)
(* is empty, at any depth.                                                 *)

C9_NoMarkupBelow ==
    \A p \in DOMAIN out :
        (IsPrefixOf(navIn.folderPath, p) /\ out[p].kind = "file")
            => Last(p).ext \notin {"md", "mdx"}

C9_Emptiness ==
    pc = "folderDone" =>
        /\ NoEmptyGroup(navOut)
        /\ C9_NoMarkupBelow => navOut = <<>>

C9_Witness ==
    /\ pc = "folderDone"
    /\ G(<<SUB, SUB>>) \in DOMAIN out
    /\ G(<<N("img", "png")>>) \in DOMAIN out
    /\ C9_NoMarkupBelow
    /\ navOut = <<>>

----------------------------------------------------------------------------
(* The files a materialization of the current source tree writes, as pairs *)
(* of source file and destination file.                                    *)

RECURSIVE DestPairs(_, _, _)
DestPairs(s, d, fuel) ==
    IF fuel = 0 \/ ~ Exists(src, s) THEN {}
    ELSE IF src[s].kind = "link" THEN DestPairs(src[s].target, d, fuel - 1)
    ELSE IF src[s].kind = "dir"
    THEN UNION {DestPairs(c, d \o <<Last(c)>>, fuel - 1) : c \in ChildPaths(src, s)}
    ELSE {Task(s, DestFileOf(s, d))}

MaterializedPairs ==
    UNION {DestPairs(c, <<Last(c)>>, Cardinality(DOMAIN src)) :
              c \in ChildPaths(src, TEMPLATE_DIR) \ {BASE_CONFIG_PATH}}

\* the materialization phase of the current run has completed
Materialized == pc = "copy" /\ stack = <<>>

\* the page string under which a destination markup file is listed
PageOfDest(d) == [i \in 1..Len(d) |-> d[i].stem]

\* the destination markup file a page string stands for
DestOfPage(page) ==
    PathOfSegs(SubSeq(page, 1, Len(page) - 1)) \o <<N(page[Len(page)], "mdx")>>

Contents(fs) ==
    [p \in DOMAIN fs |->
        IF fs[p].kind = "file" THEN [kind |-> "file", content |-> fs[p].content]
        ELSE [kind |-> fs[p].kind]]

\* the output entry e holds what copyRecursively writes for the source file s
ContentFrom(e, s) ==
    IF Last(s).ext \in {"md", "mdx"}
    THEN e.content.t = "page" /\ e.content.body = src[s].content.body
         /\ e.content.edit = s
    ELSE e.content = src[s].content

----------------------------------------------------------------------------
(* C1: when a run without clean has completed and is followed at once, on  *)
(* unchanged sources, by another run without clean, the second run leaves  *)
(* every output file and the cache file byte-identical and does not write  *)
(* docs.json.                                                              *)

C1_SecondRunDone ==
    pc = "done" /\ ~ clean /\ hist.prevDone /\ ~ hist.prevClean /\ hist.edited = {}

C1_Idempotent ==
    C1_SecondRunDone =>
        /\ Contents(out) = Contents(hist.snapOut)
        /\ cacheFile = hist.snapCache
        /\ (GENERATED_DIR \o <<DOCS_JSON>>) \notin hist.wrote

----------------------------------------------------------------------------
(* C2: copyRecursively on a regular file whose destination exists with the *)
(* same modification time reads nothing and changes neither the output     *)
(* tree nor the Position Cache; in every other case the destination is     *)
(* rewritten from the source.                                              *)

C2_AtFile == pc = "copy" /\ stack # <<>> /\ IsFile(src, Head(stack).src)

C2_Dest ==
    IF Last(Head(stack).src).ext = "md"
    THEN RenameMd(Head(stack).dest) ELSE Head(stack).dest

C2_SameMtime ==
    C2_Dest \in DOMAIN out /\ out[C2_Dest].mtime = src[Head(stack).src].mtime

C2_SkipRule ==
    [][ C2_AtFile =>
          IF C2_SameMtime
          THEN /\ out' = out
               /\ sidebarPositions' = sidebarPositions
               /\ hist'.reads = hist.reads
          ELSE /\ Head(stack).src \in hist'.reads
               /\ C2_Dest \in DOMAIN out'
               /\ out'[C2_Dest].kind = "file"
               /\ out'[C2_Dest].mtime = src[Head(stack).src].mtime
               /\ ContentFrom(out'[C2_Dest], Head(stack).src)
      ]_vars

\* a second run has skipped every file but one, which it rewrote although
\* its source had become older than the destination
C2_Witness ==
    /\ Materialized
    /\ runs = 2
    /\ ~ clean
    /\ Cardinality(hist.copied) = 1
    /\ \E c \in hist.copied :
          /\ c.dest \in DOMAIN hist.snapOut
          /\ src[c.src].mtime < hist.snapOut[c.dest].mtime
    /\ Cardinality({p \in DOMAIN out : out[p].kind = "file"}) > 1

----------------------------------------------------------------------------
(* C3: after a completed materialization every destination file that has  *)
(* a current source carries that source's modification time.               *)

C3_TimestampCoupling ==
    Materialized =>
        \A t \in MaterializedPairs :
            IsFile(out, t.dest) /\ out[t.dest].mtime = src[t.src].mtime

----------------------------------------------------------------------------
(* C4: after a completed run the pages of an auto-generated group are      *)
(* exactly the markup files materialized from the current source tree      *)
(* into that group's folder (suppressed files left aside).                 *)

C4_Expected(folderPath) ==
    {PageOfDest(t.dest) : t \in
        {u \in MaterializedPairs :
            /\ IsPrefixOf(folderPath, u.dest)
            /\ IsMarkupName(Last(u.dest))
            /\ ~ StartsWithUnderscore(Last(u.dest))}}

C4_FromFolder(g) ==
    /\ HasAuto(g)
    /\ ~ Exists(out, ResolveFolder(g.autogenerate, <<>>).folderPath \o <<DOCS_JSON>>)

----------------------------------------------------------------------------
(* C6: when the synthesis phase starts, the position looked up for the     *)
(* output path of every markup file written in this run equals the         *)
(* ordering hint that file's frontmatter declares.                         *)

C6_HintReachesSort ==
    Materialized =>
        \A c \in hist.copied :
            (Last(c.src).ext \in {"md", "mdx"} /\ src[c.src].content.hint # NoHint)
                => getSidebarPosition(c.dest) = src[c.src].content.hint

----------------------------------------------------------------------------
(* C8: the output tree never holds a symlink; after materialization the    *)
(* content of every link's target (through any chain of links) lies under  *)
(* the link's own name and position, and after a completed run its pages   *)
(* are in the navigation under that path.                                  *)

RECURSIVE C8_Resolve(_, _)
C8_Resolve(p, fuel) ==
    IF fuel > 0 /\ IsLink(src, p) THEN C8_Resolve(src[p].target, fuel - 1) ELSE p

C8_Links == {p \in DOMAIN src : IsLink(src, p) /\ IsPrefixOf(TEMPLATE_DIR, p)}

\* source file and expected destination, for every file a link leads to
C8_Expected ==
    UNION { LET tgt == C8_Resolve(l, Cardinality(DOMAIN src))
                at == SubSeq(l, 2, Len(l))
            IN IF IsFile(src, tgt)
               THEN {Task(tgt, IF Last(tgt).ext = "md" THEN RenameMd(at) ELSE at)}
               ELSE {Task(c, IF Last(c).ext = "md" THEN RenameMd(at \o <<Last(c)>>)
                                                     ELSE at \o <<Last(c)>>) :
                        c \in {x \in ChildPaths(src, tgt) : IsFile(src, x)}}
          : l \in C8_Links }

----------------------------------------------------------------------------
(* C10: when only the position cache file is deleted between two completed *)
(* runs, the second run lists the pages whose source declares an ordering  *)
(* hint in the same order as the first run did.                            *)

C10_HintOf(page) ==
    IF IsFile(out, DestOfPage(page)) /\ out[DestOfPage(page)].content.t = "page"
    THEN out[DestOfPage(page)].content.hint
    ELSE NoHint

C10_HintedOrder(nav) ==
    SelectSeq(FlatLeaves(nav.groups), LAMBDA pg : C10_HintOf(pg) # NoHint)

C10_CacheDisposable ==
    (pc = "done" /\ ~ clean /\ hist.prevDone /\ hist.edited = {"cache"}) =>
        C10_HintedOrder(finalNav)
            = C10_HintedOrder(hist.snapOut[GENERATED_DIR \o <<DOCS_JSON>>].content.nav)

----------------------------------------------------------------------------
(* C11: when the synthesis phase starts, the position looked up for every  *)
(* markup file of the output tree that has one current source equals the   *)
(* ordering hint that source declares, and is +infinity when the source    *)
(* declares none; the cache file has not been deleted since the last run.  *)

C11_SoleSource(t) == \A u \in MaterializedPairs : u.dest = t.dest => u = t

C11_Declared(t) ==
    IF src[t.src].content.hint = NoHint THEN Infinity
    ELSE src[t.src].content.hint

C11_StaleEntriesHarmless ==
    (Materialized /\ "cache" \notin hist.edited) =>
        \A t \in MaterializedPairs :
            (needsLinkProcessing(t.src) /\ C11_SoleSource(t)
                    /\ IsFile(out, t.dest))
                => getSidebarPosition(t.dest) = C11_Declared(t)

----------------------------------------------------------------------------
(* C12: navigation synthesis returns or throws an error of its own; it     *)
(* never recurses until the call stack is exhausted.                       *)

C12_NoUnboundedRecursion ==
    pc = "navDone" => (navOut.ok \/ navOut.why # "stack")

----------------------------------------------------------------------------
(* C13: a directive of the base navigation or of a sub-tree whose folder   *)
(* exists neither under the current prefix nor without it yields an empty  *)
(* page list, and the call returns.                                        *)

C13_Unresolved(folder, prefix) ==
    /\ ~ Exists(out, PathOfSegs(prefix \o folder))
    /\ ~ Exists(out, PathOfSegs(folder))

C13_FallbackChain ==
    (pc = "navDone" /\ Has(navIn.nav, "groups")) =>
        \A i \in 1..Len(navIn.nav.groups) :
            (/\ HasAuto(navIn.nav.groups[i])
             /\ C13_Unresolved(navIn.nav.groups[i].autogenerate, navIn.prefix))
                => /\ navOut.ok
                   /\ navOut.v.groups[i].pages = <<>>

\* C14: when the frontmatter of a markup file cannot be parsed the run
\* goes on to the remaining files, and the destination file holds the
\* source's text as it is (same frontmatter, same body with its links as
\* written, nothing appended) and carries the source's mtime.
C14_SameText(written, original) ==
    /\ written.fm = original.fm
    /\ written.fmt = original.fmt
    /\ written.data = original.data
    /\ written.hint = original.hint
    /\ written.body = original.body
    /\ written.edit = <<>>

C14_FallbackToOriginal ==
    Materialized =>
        /\ \A u \in MaterializedPairs : IsFile(out, u.dest)
        /\ \A t \in MaterializedPairs :
              (needsLinkProcessing(t.src) /\ src[t.src].content.fm = "bad")
                  => /\ out[t.dest].mtime = src[t.src].mtime
                     /\ C14_SameText(out[t.dest].content, src[t.src].content)

\* C19: when the metadata has no title (none, or an empty one) and the body
\* has a top-level heading line, the result's title is the text of the
\* first such heading and its body is the input body without that heading
\* line and the blank lines directly after it, every other line kept in
\* order; when the metadata has a title, title and body are unchanged; when
\* there is no top-level heading, the title is as absent as before.
C19_HasTitle(text) == Has(text.data, "title") /\ text.data["title"] # ""
C19_HasHeading(text) == \E i \in 1..Len(text.body) : text.body[i].k = "h1"

RECURSIVE C19_DropBlanks(_)
C19_DropBlanks(lines) ==
    IF lines # <<>> /\ Head(lines).k = "blank" THEN C19_DropBlanks(Tail(lines))
    ELSE lines

RECURSIVE C19_WithoutHeading(_)
C19_WithoutHeading(lines) ==
    IF lines = <<>> THEN <<>>
    ELSE IF Head(lines).k = "h1" THEN C19_DropBlanks(Tail(lines))
    ELSE <<Head(lines)>> \o C19_WithoutHeading(Tail(lines))

RECURSIVE C19_HeadingText(_)
C19_HeadingText(lines) ==
    IF Head(lines).k = "h1" THEN Head(lines).s ELSE C19_HeadingText(Tail(lines))

C19_TitleExtraction ==
    pc = "textDone" =>
        /\ (~ C19_HasTitle(navIn) /\ C19_HasHeading(navIn))
              => /\ Has(navOut.data, "title")
                 /\ navOut.data["title"] = C19_HeadingText(navIn.body)
                 /\ navOut.body = C19_WithoutHeading(navIn.body)
        /\ C19_HasTitle(navIn)
              => /\ navOut.data["title"] = navIn.data["title"]
                 /\ navOut.body = navIn.body
        /\ (~ C19_HasTitle(navIn) /\ ~ C19_HasHeading(navIn))
              => /\ Has(navOut.data, "title") = Has(navIn.data, "title")
                 /\ navOut.body = navIn.body

\* C20: sidebar_label is renamed to sidebarTitle (same value, old key gone)
\* exactly when the metadata has the key sidebar_label and not the key
\* sidebarTitle; every key other than these two and title keeps its key and
\* value, sidebar_position included; and when neither the rename nor the
\* title extraction applies the returned text is the input text.
C20_Renamed ==
    /\ ~ Has(navOut.data, "sidebar_label")
    /\ Has(navOut.data, "sidebarTitle")
    /\ navOut.data["sidebarTitle"] = navIn.data["sidebar_label"]

C20_KeptAsIs ==
    \A k \in {"sidebar_label", "sidebarTitle"} :
        /\ Has(navOut.data, k) = Has(navIn.data, k)
        /\ Has(navIn.data, k) => navOut.data[k] = navIn.data[k]

C20_PassThrough ==
    pc = "textDone" =>
        /\ IF Has(navIn.data, "sidebar_label") /\ ~ Has(navIn.data, "sidebarTitle")
           THEN C20_Renamed ELSE C20_KeptAsIs
        /\ \A k \in (DOMAIN navIn.data \cup DOMAIN navOut.data)
                       \ {"sidebar_label", "sidebarTitle", "title"} :
              /\ Has(navIn.data, k) /\ Has(navOut.data, k)
              /\ navOut.data[k] = navIn.data[k]
        /\ navOut.hint = navIn.hint
        /\ (C20_KeptAsIs
            /\ Has(navOut.data, "title") = Has(navIn.data, "title")
            /\ (Has(navIn.data, "title") => navOut.data["title"] = navIn.data["title"]))
              => navOut = navIn

\* C15: when the base configuration document is missing or is not valid
\* JSON, generateDocs aborts after the materialization: the synthesis, the
\* config write and the cache save are not executed, and no docs.json is
\* written in that run.
C15_BaseUnusable ==
    ~ Exists(src, BASE_CONFIG_PATH) \/ ~ readMintConfig(src, BASE_CONFIG_PATH).ok

C15_FatalConfigError ==
    (C15_BaseUnusable /\ runs > 0) =>
        /\ pc \in {"copy", "failed", "idle"}
        /\ finalNav = <<>>
        /\ cacheFile = (IF clean THEN NoCacheFile ELSE hist.snapCache)
        /\ (GENERATED_DIR \o <<DOCS_JSON>>) \notin hist.wrote

\* C16: writeMintConfig writes nothing when the serialized document equals
\* the content already at the path, so the file keeps its bytes and its
\* mtime; it writes when the file is absent or different; and when it has
\* returned the file's content is the serialized document.
C16_Path == GENERATED_DIR \o <<DOCS_JSON>>
C16_Document == With(src[BASE_CONFIG_PATH].content, "nav", finalNav)

C16_WriterNoOp ==
    [][pc = "write" =>
          /\ IsFile(out', C16_Path)
          /\ out'[C16_Path].content = C16_Document
          /\ IF IsFile(out, C16_Path) /\ out[C16_Path].content = C16_Document
             THEN out' = out
             ELSE out'[C16_Path].mtime = Now
          /\ \A q \in DOMAIN out \ {C16_Path} : q \in DOMAIN out' /\ out'[q] = out[q]
      ]_vars

\* a second run has found the document of the first run in place and has
\* left the file with the first run's mtime
C16_Witness ==
    /\ pc = "save"
    /\ runs = 2
    /\ C16_Path \notin hist.wrote
    /\ out[C16_Path].content = C16_Document
    /\ out[C16_Path].mtime = 11

\* the docs.json of the folder a directive names, found where the
\* directive is expected to resolve
C17_DocPath(g) == PathOfSegs(navIn.prefix \o g.autogenerate) \o <<DOCS_JSON>>
C17_HasDoc(g) ==
    /\ HasAuto(g)
    /\ IsFile(out, C17_DocPath(g))
    /\ readMintConfig(out, C17_DocPath(g)).ok
C17_Doc(g) == out[C17_DocPath(g)].content.nav

\* C17: when the docs.json found in an auto-generate folder has exactly
\* one top-level group, the node produced for the directive carries that
\* group's name, not the name of the requesting node.
C17_SingleGroupLifted ==
    (pc = "navDone" /\ Has(navIn.nav, "groups") /\ navOut.ok) =>
        \A i \in 1..Len(navIn.nav.groups) :
            LET g == navIn.nav.groups[i]
            IN (C17_HasDoc(g) /\ Has(C17_Doc(g), "groups")
                    /\ Len(C17_Doc(g).groups) = 1)
                  => navOut.v.groups[i].group = C17_Doc(g).groups[1].group

\* the top-level groups of a navigation document, in document order
RECURSIVE C18_GroupsOfTabs(_)
C18_GroupsOfTabs(tabs) ==
    IF tabs = <<>> THEN <<>>
    ELSE (IF Has(Head(tabs), "groups") THEN Head(tabs).groups ELSE <<>>)
         \o C18_GroupsOfTabs(Tail(tabs))

C18_TopGroups(nav) ==
    IF Has(nav, "groups") THEN nav.groups
    ELSE IF Has(nav, "tabs") /\ \A i \in 1..Len(nav.tabs) : Has(nav.tabs[i], "groups")
    THEN C18_GroupsOfTabs(nav.tabs)
    ELSE <<>>

RECURSIVE C18_Prefixed(_, _)
C18_Prefixed(items, prefix) ==
    [i \in 1..Len(items) |->
        IF IsPage(items[i]) THEN Page(prefix \o items[i].page)
        ELSE [items[i] EXCEPT !.pages = C18_Prefixed(@, prefix)]]

\* C18: when the docs.json found in an auto-generate folder has several
\* top-level groups, directly or as the groups of its tabs, the item list
\* of the requesting node is those groups in document order, each with its
\* pages prefixed: no wrapper group in between, no group dropped.
C18_MultiGroupFlattened ==
    (pc = "navDone" /\ Has(navIn.nav, "groups") /\ navOut.ok) =>
        \A i \in 1..Len(navIn.nav.groups) :
            LET g == navIn.nav.groups[i]
                top == IF C17_HasDoc(g) THEN C18_TopGroups(C17_Doc(g)) ELSE <<>>
                items == navOut.v.groups[i].pages
            IN Len(top) > 1 =>
                  /\ Len(items) = Len(top)
                  /\ \A j \in 1..Len(top) :
                        /\ ~ IsPage(items[j])
                        /\ items[j].group = top[j].group
                        /\ (Has(top[j], "pages") /\ ~ HasAuto(top[j]))
                              => items[j].pages =
                                    C18_Prefixed(top[j].pages,
                                                 navIn.prefix \o g.autogenerate)

\* the groups of two tabs have become the items of the requesting node
C18_Witness ==
    /\ pc = "navDone"
    /\ navOut.ok
    /\ Has(navIn.nav, "groups")
    /\ C17_HasDoc(navIn.nav.groups[1])
    /\ Has(C17_Doc(navIn.nav.groups[1]), "tabs")
    /\ Len(C18_TopGroups(C17_Doc(navIn.nav.groups[1]))) = 2
    /\ Len(navOut.v.groups[1].pages) = 2
    /\ navOut.v.groups[1].pages[2].pages[2].pages
          = <<Page(<<"protocol", "api", "ref">>)>>

\* C21: a link target is left as it is when it is an absolute external
\* reference or contains '?'; of every other target the .md/.mdx extension
\* suffix is removed, a trailing '#fragment' kept, and './' is put in front
\* unless the result starts with './', '../' or '/'.
C21_External(path) ==
    \E i \in 1..Len(path) : path[i] \in {"://", "https://", "http://"}

C21_FragmentAt(path) ==
    IF \E i \in 1..Len(path) : path[i] = "#"
    THEN CHOOSE i \in 1..Len(path) :
            path[i] = "#" /\ \A j \in 1..(i - 1) : path[j] # "#"
    ELSE Len(path) + 1

C21_Rewritten(path) ==
    LET at == C21_FragmentAt(path)
        base == SubSeq(path, 1, at - 1)
        fragment == SubSeq(path, at, Len(path))
        stripped == IF base # <<>> /\ base[Len(base)] \in {".md", ".mdx"}
                    THEN SubSeq(base, 1, Len(base) - 1) ELSE base
        local == stripped \o fragment
    IN IF local # <<>> /\ local[1] \in {"./", "../", "/"} THEN local
       ELSE <<"./">> \o local

C21_LinkRule ==
    pc = "linksOnce" =>
        \A i \in 1..Len(navIn.body) :
            IF navIn.body[i].k # "link" THEN navOut.body[i] = navIn.body[i]
            ELSE navOut.body[i].to =
                    (IF C21_External(navIn.body[i].to)
                        \/ (\E j \in 1..Len(navIn.body[i].to) : navIn.body[i].to[j] = "?")
                     THEN navIn.body[i].to
                     ELSE C21_Rewritten(navIn.body[i].to))

\* C22: convertLocalMarkdownLinks applied to its own result returns that
\* result.
C22_Idempotent == pc = "linksTwice" => navOut = finalNav

\* C23: when a run with the clean flag has completed, the files of the
\* output tree are exactly the files materialized from the current source
\* tree plus docs.json, nothing written by an earlier run survives, and
\* every entry of the position cache comes from a file of this run.
C23_CleanDiscards ==
    (pc = "done" /\ clean) =>
        /\ {p \in DOMAIN out : IsFile(out, p)}
              = {t.dest : t \in MaterializedPairs} \cup {GENERATED_DIR \o <<DOCS_JSON>>}
        /\ \A p \in DOMAIN out : IsFile(out, p) => p \in hist.wrote
        /\ \A i \in 1..Len(cacheFile.entries) :
              \E t \in MaterializedPairs :
                  /\ t.dest = cacheFile.entries[i].k
                  /\ src[t.src].content.hint = cacheFile.entries[i].v

\* a clean run has completed after a run that left a file, and a cache
\* entry, whose source has since been deleted
C23_Witness ==
    /\ pc = "done"
    /\ clean
    /\ \E p \in DOMAIN hist.snapOut : IsFile(hist.snapOut, p) /\ p \notin DOMAIN out
    /\ \E i \in 1..Len(hist.snapCache.entries) :
          \A j \in 1..Len(cacheFile.entries) :
              cacheFile.entries[j].k # hist.snapCache.entries[i].k

\* C24: for one output tree and position cache generatePagesFromFolder
\* returns the same navigation whichever way the file system enumerates
\* directory entries; in the folder all file pages come before all
\* subdirectory groups, and the groups are in alphabetical order of the
\* subdirectories' names, spelled as the subdirectories are.
C24_OrderIndependent ==
    pc = "folderDone" =>
        /\ runs = 1 => navOut = finalNav
        /\ \A i, j \in 1..Len(navOut) :
              i < j =>
                 /\ IsPage(navOut[j]) => IsPage(navOut[i])
                 /\ (~ IsPage(navOut[i]) /\ ~ IsPage(navOut[j]))
                       => IndexOf(StemOrder, navOut[i].group)
                             < IndexOf(StemOrder, navOut[j].group)
        /\ \A i \in 1..Len(navOut) :
              ~ IsPage(navOut[i])
                 => \E d \in ChildPaths(out, navIn.folderPath) :
                       IsDir(out, d) /\ Last(d).stem = navOut[i].group

\* a folder with several pages and two subdirectories has been listed under
\* both enumeration orders
C24_Witness ==
    /\ pc = "folderDone"
    /\ runs = 1
    /\ Len(navOut) >= 4
    /\ IsPage(navOut[2])
    /\ ~ IsPage(navOut[Len(navOut) - 1])
    /\ navOut[Len(navOut) - 1].group = "API"
    /\ navOut[Len(navOut)].group = "sub"

\* C25: what is written for a markup file depends on the source content
\* and the destination path only: a second materialization of the same
\* content to the same destination writes the same bytes, wherever the
\* source file now lies and whatever git answers; other files are copied
\* as they are; and whether a file is copied or skipped depends on the two
\* mtimes only.
C25_Deterministic ==
    (Materialized /\ runs = 2) =>
        \A t \in MaterializedPairs :
            /\ (t.dest \in hist.wrote)
                  = (hist.snapOut[t.dest].mtime # src[t.src].mtime)
            /\ ~ needsLinkProcessing(t.src)
                  => out[t.dest].content = src[t.src].content
            /\ needsLinkProcessing(t.src)
                  => out[t.dest].content = hist.snapOut[t.dest].content

\* C26: of a group or tab carrying an autogenerate directive the result
\* holds what auto-generation produced and nothing the author put on the
\* node: none of the author's pages is among the pages of the result, and
\* a tab's own groups list is not in the result.
C26_Replaced(node, result) ==
    /\ Has(result, "pages")
    /\ Has(node, "pages")
          => \A i \in 1..Len(node.pages), j \in 1..Len(result.pages) :
                result.pages[j] # node.pages[i]
    /\ ~ Has(result, "groups")

C26_ReplacedNotMerged ==
    (pc = "navDone" /\ navOut.ok) =>
        /\ Has(navIn.nav, "groups")
              => \A i \in 1..Len(navIn.nav.groups) :
                    HasAuto(navIn.nav.groups[i])
                       => C26_Replaced(navIn.nav.groups[i], navOut.v.groups[i])
        /\ Has(navIn.nav, "tabs")
              => \A i \in 1..Len(navIn.nav.tabs) :
                    HasAuto(navIn.nav.tabs[i])
                       => C26_Replaced(navIn.nav.tabs[i], navOut.v.tabs[i])

\* C27: when a run has aborted after the materialization and, the base
\* config put right and nothing else changed, a run without clean
\* completes, the pages of every group that declare an ordering hint are
\* listed in the order of their hints.
C27_HintsSurviveFailure ==
    (pc = "done" /\ ~ clean /\ runs > 1 /\ ~ hist.prevDone /\ hist.edited = {"base"}) =>
        \A g \in 1..Len(finalNav.groups) :
            \A i, j \in 1..Len(finalNav.groups[g].pages) :
                LET a == finalNav.groups[g].pages[i]
                    b == finalNav.groups[g].pages[j]
                IN (i < j /\ IsPage(a) /\ IsPage(b)
                        /\ C10_HintOf(a.page) # NoHint /\ C10_HintOf(b.page) # NoHint)
                      => C10_HintOf(a.page) <= C10_HintOf(b.page)

\* C28: within one materialization no two different source files are
\* written to the same destination path.
C28_DestinationsInjective ==
    \A t, u \in hist.copied : t.dest = u.dest => t.src = u.src


\* C29: a step of a run without --clean, its start included, deletes no
\* file and no directory of the output tree and no entry of the cache file,
\* and after the start no entry of the Map in memory: it only adds and
\* overwrites.  An
\* output file that no source file is materialized to any more keeps its
\* content through the run.
C29_Stale(p) ==
    /\ IsFile(out, p)
    /\ p # GENERATED_DIR \o <<DOCS_JSON>>
    /\ p \notin {t.dest : t \in MaterializedPairs}

C29_NothingRemoved ==
    [][(pc' \in {"copy", "nav", "write", "save", "done", "failed"} /\ ~ clean') =>
        /\ \A p \in DOMAIN out : Exists(out', p) /\ out'[p].kind = out[p].kind
        /\ \A p \in DOMAIN out : C29_Stale(p) => out'[p] = out[p]
        /\ runs' = runs =>
              \A i \in 1..Len(sidebarPositions) :
                  MapHas(sidebarPositions', sidebarPositions[i].k)
        /\ \A i \in 1..Len(cacheFile.entries) :
              MapHas(cacheFile'.entries, cacheFile.entries[i].k)]_vars

\* a run without --clean has completed after a source file was deleted: the
\* file materialized from it by the run before is still in the output tree
\* with the content it had, and its cache entry is still in the cache file
C29_Witness ==
    /\ pc = "done"
    /\ ~ clean
    /\ \E p \in DOMAIN out :
          /\ C29_Stale(p)
          /\ IsFile(hist.snapOut, p)
          /\ out[p] = hist.snapOut[p]
          /\ MapHas(hist.snapCache.entries, p)
          /\ MapHas(cacheFile.entries, p)


\* C30: materialization terminates: on every path of the recursion of
\* copyRecursively each entity of the source tree occurs at most once, so no
\* destination is nested deeper than the source tree has entities, and the
\* materialization returns instead of failing.
C30_Terminates ==
    /\ \A i \in 1..Len(stack) :
          Len(stack[i].dest) <= Cardinality(DOMAIN src)
    /\ pc # "failed"

=============================================================================
